---- MODULE Spec2Model ----
(***************************************************************************)
(* FreeForecaster (src/main.py): a ForecastBot subclass that gathers free  *)
(* research (encyclopedia summary, news headlines) for a question and asks *)
(* a local language model for a probability.                               *)
(*                                                                         *)
(* Text is modelled as a sequence of tokens: one-character strings for     *)
(* free text, and one token for each literal the code writes (a header, a  *)
(* line break, the placeholder).  Python's string slicing, joining and     *)
(* concatenation act on these sequences.                                   *)
(*                                                                         *)
(* Specifications:                                                         *)
(*   Spec          the program from its entry point: forecast_on_tournament*)
(*                 calls run_research for the questions of the listing on  *)
(*                 one event loop;                                         *)
(*   SpecForecast  the method _run_forecast_on_binary called with a        *)
(*                 question and a research string;                         *)
(*   SpecWhole     Spec with the steps of SpecForecast enabled as well.    *)
(***************************************************************************)
EXTENDS Integers, Sequences, FiniteSets

(* ------------------------------ bounds -------------------------------- *)
NumQuestions == 2      \* questions in the tournament listing
MaxOver == 2           \* how far a text may exceed a truncation limit
MaxArticles == 4       \* articles the news API may return
MaxResponseLen == 4    \* characters of a language-model response

(* ------------------------- program constants -------------------------- *)
_max_concurrent_questions == 1
QueryLimit == 50
SummaryLimit == 1000
NewsLimit == 3
HTTP_OK == 200

Questions == 1..NumQuestions

NL == "\n"
Placeholder == <<"No free research available">>
NoResearchConducted == <<"No research conducted">>
WikiHeader == "Wikipedia Summary:"
NewsHeader == "News Headlines:"

(* names bound in the module's global namespace when run_research runs:   *)
(* the imports, the logger and the class.  There is no "import os".       *)
ModuleGlobals ==
    {"argparse", "asyncio", "logging", "datetime", "Literal", "wikipediaapi",
     "requests", "BinaryQuestion", "ForecastBot", "GeneralLlm", "MetaculusApi",
     "MetaculusQuestion", "MultipleChoiceQuestion", "NumericDistribution",
     "NumericQuestion", "PredictedOptionList", "PredictionExtractor",
     "ReasonedPrediction", "clean_indents", "logger", "FreeForecaster"}

(* a global name lookup succeeds iff the name is bound; otherwise Python   *)
(* raises NameError at the point of use                                    *)
NameResolves(name) == name \in ModuleGlobals

(* ------------------------------- text --------------------------------- *)
Letters == <<"a", "b", "c", "d", "e", "f", "g">>
CharAt(i) == Letters[(i % 7) + 1]
TextOfLen(n) == [i \in 1..n |-> CharAt(i)]

(* Python slice s[:n] *)
Take(s, n) == SubSeq(s, 1, IF Len(s) < n THEN Len(s) ELSE n)

(* the texts a question may carry, and the summaries a page may carry     *)
QuestionTexts == {TextOfLen(n) : n \in {QueryLimit - 1, QueryLimit, QueryLimit + MaxOver}}
Summaries == {TextOfLen(n) : n \in {0, SummaryLimit, SummaryLimit + MaxOver}}

Article(i) == [title |-> CharAt(i), url |-> CharAt(i + 3)]
ArticleList(n) == [i \in 1..n |-> Article(i)]

(* sep.join(parts) *)
RECURSIVE Join(_, _)
Join(sep, parts) ==
    IF parts = <<>> THEN <<>>
    ELSE IF Len(parts) = 1 THEN parts[1]
    ELSE parts[1] \o sep \o Join(sep, Tail(parts))

(* f"Wikipedia Summary:\n{wiki_page.summary[:1000]}" *)
WikiSection(summary) == <<WikiHeader, NL>> \o Take(summary, SummaryLimit)

(* f"- {a['title']} ({a['url']})" *)
Bullet(a) == <<"- ", a.title, " (", a.url, ")">>

(* "News Headlines:\n" + "\n".join(bullet for a in articles), articles    *)
(* being response.json().get('articles', [])[:3]                          *)
NewsSection(articles) ==
    LET shown == Take(articles, NewsLimit)
    IN  <<NewsHeader, NL>> \o Join(<<NL>>, [i \in 1..Len(shown) |-> Bullet(shown[i])])

(* "\n\n".join(research) if research else "No free research available"    *)
ResearchBlob(research) ==
    IF research # <<>> THEN Join(<<NL, NL>>, research) ELSE Placeholder

VARIABLES
    question_text,     \* question_text[q]: the text of question q
    newsApiKeySet,     \* whether NEWS_API_KEY is set in the environment
    newsRaises,        \* whether requests.get / response.json() raises
    newsStatus,        \* response.status_code of the news endpoint
    newsArticles,      \* the articles array of its JSON body
    limiterValue,      \* free permits of FreeForecaster._concurrency_limiter
    running,           \* the tasks the event loop is executing: none or one
    pc,                \* pc[q]: position of question q's processing
    wikiQuery,         \* wikiQuery[q]: titles passed to wiki.page
    newsQuery,         \* newsQuery[q]: q= parameters passed to requests.get
    researchCalls,     \* researchCalls[q]: number of run_research calls
    wikiExists,        \* wikiExists[q]: what wiki_page.exists() answered
    wikiSummary,       \* wikiSummary[q]: wiki_page.summary
    research,          \* research[q]: the local list of sections
    researchOutcome,   \* "none", "returned" or the exception run_research raised
    researchResult,    \* the string run_research returned
    researchArg,       \* research argument of _run_forecast_on_binary
    prompt,            \* prompt[q] sent to the model
    llmCalls,          \* llmCalls[q]: number of llm.invoke calls
    reasoning,         \* reasoning[q]: the model's response text
    forecastOutcome,   \* "none", "returned" or the exception raised
    prediction,        \* the ReasonedPrediction returned
    published          \* published[q]: predictions handed to the platform

envVars == <<question_text, newsApiKeySet, newsRaises, newsStatus, newsArticles>>
researchVars == <<researchCalls, wikiQuery, newsQuery, wikiExists, wikiSummary, research,
                  researchOutcome, researchResult>>
forecastVars == <<researchArg, prompt, llmCalls, reasoning, forecastOutcome, prediction, published>>
vars == <<envVars, limiterValue, running, pc, researchVars, forecastVars>>

NoPrediction == [prediction_value |-> -1, reasoning |-> <<>>]

(* status codes the news endpoint may answer with *)
StatusCodes == {HTTP_OK, 404, 500}

(* what every specification starts from, besides the environment, pc and  *)
(* researchArg                                                             *)
InitCommon ==
    /\ limiterValue = _max_concurrent_questions
    /\ running = {}
    /\ wikiQuery = [q \in Questions |-> <<>>]
    /\ newsQuery = [q \in Questions |-> <<>>]
    /\ researchCalls = [q \in Questions |-> 0]
    /\ wikiExists = [q \in Questions |-> FALSE]
    /\ wikiSummary = [q \in Questions |-> <<>>]
    /\ research = [q \in Questions |-> <<>>]
    /\ researchOutcome = [q \in Questions |-> "none"]
    /\ researchResult = [q \in Questions |-> <<>>]
    /\ prompt = [q \in Questions |-> <<>>]
    /\ llmCalls = [q \in Questions |-> 0]
    /\ reasoning = [q \in Questions |-> <<>>]
    /\ forecastOutcome = [q \in Questions |-> "none"]
    /\ prediction = [q \in Questions |-> NoPrediction]
    /\ published = [q \in Questions |-> <<>>]

(* the state after FreeForecaster(...) is constructed and                  *)
(* forecast_on_tournament has listed the questions                         *)
Init ==
    /\ InitCommon
    /\ question_text \in [Questions -> QuestionTexts]
    /\ newsApiKeySet \in BOOLEAN
    /\ newsRaises \in BOOLEAN
    /\ newsStatus \in StatusCodes
    /\ newsArticles \in {ArticleList(n) : n \in 0..MaxArticles}
    /\ pc = [q \in Questions |-> "pending"]
    /\ researchArg = [q \in Questions |-> <<>>]

(* ---------------------------- run_research ---------------------------- *)

(* the orchestrator starts a question: run_research is entered, the local *)
(* list is empty.  The method holds the event loop until it ends: it has  *)
(* no await.  No permit is taken: nothing acquires _concurrency_limiter.  *)
StartResearch(q) ==
    /\ running = {}
    /\ pc[q] = "pending"
    /\ running' = {q}
    /\ researchCalls' = [researchCalls EXCEPT ![q] = @ + 1]
    /\ research' = [research EXCEPT ![q] = <<>>]
    /\ pc' = [pc EXCEPT ![q] = "wiki"]
    /\ UNCHANGED <<envVars, limiterValue, wikiQuery, newsQuery, wikiExists, wikiSummary,
                   researchOutcome, researchResult, forecastVars>>

(* lines 40-42: the encyclopedia lookup; the service decides whether the  *)
(* page exists and what its summary is                                     *)
WikiLookup(q) ==
    /\ running = {q}
    /\ pc[q] = "wiki"
    /\ wikiQuery' = [wikiQuery EXCEPT ![q] = Append(@, Take(question_text[q], QueryLimit))]
    /\ \E exists \in BOOLEAN, summary \in Summaries :
          /\ wikiExists' = [wikiExists EXCEPT ![q] = exists]
          /\ wikiSummary' = [wikiSummary EXCEPT ![q] = IF exists THEN summary ELSE <<>>]
          /\ research' = [research EXCEPT ![q] =
                 IF exists THEN Append(@, WikiSection(summary)) ELSE @]
    /\ pc' = [pc EXCEPT ![q] = "news"]
    /\ UNCHANGED <<envVars, limiterValue, running, researchCalls, newsQuery,
                   researchOutcome, researchResult, forecastVars>>

(* what lines 45-54 do with the list built so far: the outcome, the       *)
(* queries sent to the news endpoint, and the string returned             *)
NewsAndReturn(text, sections) ==
    IF ~NameResolves("os")
    THEN [outcome |-> "NameError", queries |-> <<>>, result |-> <<>>]
    ELSE IF ~newsApiKeySet
    THEN [outcome |-> "returned", queries |-> <<>>, result |-> ResearchBlob(sections)]
    ELSE LET query == Take(text, QueryLimit)
         IN  IF newsRaises
             THEN [outcome |-> "TransportError", queries |-> <<query>>, result |-> <<>>]
             ELSE IF newsStatus = HTTP_OK
             THEN [outcome |-> "returned", queries |-> <<query>>,
                   result |-> ResearchBlob(Append(sections, NewsSection(newsArticles)))]
             ELSE [outcome |-> "returned", queries |-> <<query>>,
                   result |-> ResearchBlob(sections)]

(* lines 45-54: the news step and the return.  A return hands the blob to *)
(* the orchestrator, which goes on to the prediction; an exception ends   *)
(* the question's processing.                                              *)
NewsLookup(q) ==
    /\ running = {q}
    /\ pc[q] = "news"
    /\ LET r == NewsAndReturn(question_text[q], research[q])
       IN  /\ researchOutcome' = [researchOutcome EXCEPT ![q] = r.outcome]
           /\ newsQuery' = [newsQuery EXCEPT ![q] = @ \o r.queries]
           /\ researchResult' = [researchResult EXCEPT ![q] = r.result]
           /\ researchArg' = [researchArg EXCEPT ![q] =
                  IF r.outcome = "returned" THEN r.result ELSE @]
           /\ pc' = [pc EXCEPT ![q] =
                  IF r.outcome = "returned" THEN "forecast" ELSE "failed"]
    /\ running' = {}
    /\ UNCHANGED <<envVars, limiterValue, researchCalls, wikiQuery, wikiExists,
                   wikiSummary, research, prompt, llmCalls, reasoning, forecastOutcome, prediction, published>>

Next ==
    \E q \in Questions :
        \/ StartResearch(q)
        \/ WikiLookup(q)
        \/ NewsLookup(q)

Spec == Init /\ [][Next]_vars

(* ----------------------- _run_forecast_on_binary ---------------------- *)

(* datetime.now().strftime("%Y-%m-%d"): one token, the formatted date *)
Today == "YYYY-MM-DD"

(* lines 68-78: the prompt, as clean_indents leaves the f-string; the     *)
(* characters of "0-100%" and of "XX%" are spelled out                    *)
Prompt(text, research_arg) ==
    <<"[Simplified free version]", NL, "Question: ">> \o text
    \o <<NL, "Current Date: ", Today, NL, "Research: ">>
    \o (IF research_arg # <<>> THEN research_arg ELSE NoResearchConducted)
    \o <<NL, NL, "Analyze and give:", NL,
         "1. Key factors affecting outcome", NL,
         "2. Most likely outcome (", "0", "-", "1", "0", "0", "%", " probability)", NL,
         "3. Final answer format: \"Probability: ", "X", "X", "%", "\"">>

Digits == <<"0", "1", "2", "3", "4", "5", "6", "7", "8", "9">>
IsDigit(c) == \E d \in 1..10 : Digits[d] = c
DigitValue(c) == (CHOOSE d \in 1..10 : Digits[d] = c) - 1

(* all percentage-shaped values of a text, left to right: every maximal   *)
(* run of digits directly followed by "%".  run is the value of the digit *)
(* run that ends just before position i, or -1 when there is none.        *)
RECURSIVE FindPercentages(_, _, _, _)
FindPercentages(text, i, run, found) ==
    IF i > Len(text) THEN found
    ELSE IF IsDigit(text[i])
    THEN FindPercentages(text, i + 1,
             (IF run < 0 THEN 0 ELSE run) * 10 + DigitValue(text[i]), found)
    ELSE IF text[i] = "%" /\ run >= 0
    THEN FindPercentages(text, i + 1, -1, Append(found, run))
    ELSE FindPercentages(text, i + 1, -1, found)

HasPercentage(text) == FindPercentages(text, 1, -1, <<>>) # <<>>

(* PredictionExtractor.extract_last_percentage_value on a text that has a *)
(* percentage: the last one found, as a number of percent                 *)
extract_last_percentage_value(text) ==
    LET found == FindPercentages(text, 1, -1, <<>>) IN found[Len(found)]

(* what the extractor may do with a text that has no percentage: raise,   *)
(* or return some value                                                    *)
NoMatchOutcomes == {-1} \cup {0, 50, 100}

(* the extractor applied to the prompt that was sent instead of the       *)
(* response that came back                                                 *)
ReasonedPredictionFromPrompt(prompt_text, response) ==
    [prediction_value |-> extract_last_percentage_value(prompt_text),
     reasoning |-> response]

(* lines 80-81: the prediction is extracted from the model's response,    *)
(* which is also the reasoning                                             *)
ReasonedPrediction(prompt_text, response) ==
    [prediction_value |-> extract_last_percentage_value(response),
     reasoning |-> response]

(* the responses the language model may give *)
ResponseAlphabet == {"x", "7", "3", "%"}
Responses == UNION {[1..n -> ResponseAlphabet] : n \in 0..MaxResponseLen}

(* lines 67-79 up to the await of llm.invoke: the model handle, the       *)
(* prompt, the call; the task is then suspended                           *)
InvokeLlm(q) ==
    /\ running = {}
    /\ pc[q] = "forecast"
    /\ prompt' = [prompt EXCEPT ![q] = Prompt(question_text[q], researchArg[q])]
    /\ llmCalls' = [llmCalls EXCEPT ![q] = @ + 1]
    /\ pc' = [pc EXCEPT ![q] = "await_llm"]
    /\ UNCHANGED <<envVars, limiterValue, running, researchVars, researchArg,
                   reasoning, forecastOutcome, prediction, published>>

(* lines 79-81: the response arrives, the percentage is extracted and the *)
(* ReasonedPrediction returned                                             *)
LlmResponds(q) ==
    /\ running = {}
    /\ pc[q] = "await_llm"
    /\ \E response \in Responses :
          /\ reasoning' = [reasoning EXCEPT ![q] = response]
          /\ IF HasPercentage(response)
             THEN /\ prediction' = [prediction EXCEPT ![q] =
                         ReasonedPrediction(prompt[q], response)]
                  /\ forecastOutcome' = [forecastOutcome EXCEPT ![q] = "returned"]
                  /\ pc' = [pc EXCEPT ![q] = "predicted"]
             ELSE \E o \in NoMatchOutcomes :
                  IF o < 0
                  THEN /\ prediction' = prediction
                       /\ forecastOutcome' = [forecastOutcome EXCEPT ![q] = "ValueError"]
                       /\ pc' = [pc EXCEPT ![q] = "failed"]
                  ELSE /\ prediction' = [prediction EXCEPT ![q] =
                              [prediction_value |-> o, reasoning |-> response]]
                       /\ forecastOutcome' = [forecastOutcome EXCEPT ![q] = "returned"]
                       /\ pc' = [pc EXCEPT ![q] = "predicted"]
    /\ UNCHANGED <<envVars, limiterValue, running, researchVars, researchArg,
                   prompt, llmCalls, published>>

(* line 79: llm.invoke raises (no retry); the exception propagates *)
LlmRaises(q) ==
    /\ running = {}
    /\ pc[q] = "await_llm"
    /\ forecastOutcome' = [forecastOutcome EXCEPT ![q] = "LlmError"]
    /\ pc' = [pc EXCEPT ![q] = "failed"]
    /\ UNCHANGED <<envVars, limiterValue, running, researchVars, researchArg,
                   prompt, llmCalls, reasoning, prediction, published>>

(* the orchestrator submits the prediction to the platform *)
Publish(q) ==
    /\ running = {}
    /\ pc[q] = "predicted"
    /\ published' = [published EXCEPT ![q] = Append(@, prediction[q])]
    /\ pc' = [pc EXCEPT ![q] = "done"]
    /\ UNCHANGED <<envVars, limiterValue, running, researchVars, researchArg,
                   prompt, llmCalls, reasoning, forecastOutcome, prediction>>

(* research strings _run_forecast_on_binary is called with *)
ResearchArgs ==
    {<<>>, Placeholder, WikiSection(TextOfLen(2)), <<"5", "%", NL, "x">>}

(* _run_forecast_on_binary is called for one question, with a research    *)
(* string; no research step has run                                        *)
InitForecast ==
    /\ InitCommon
    /\ \E t \in QuestionTexts : question_text = [q \in Questions |-> t]
    /\ newsApiKeySet = FALSE
    /\ newsRaises = FALSE
    /\ newsStatus = HTTP_OK
    /\ newsArticles = <<>>
    /\ \E c \in Questions, r \in ResearchArgs :
          /\ pc = [q \in Questions |-> IF q = c THEN "forecast" ELSE "pending"]
          /\ researchArg = [q \in Questions |-> IF q = c THEN r ELSE <<>>]

ForecastNext ==
    \E q \in Questions :
        \/ InvokeLlm(q)
        \/ LlmResponds(q)
        \/ LlmRaises(q)
        \/ Publish(q)

SpecForecast == InitForecast /\ [][ForecastNext]_vars

(* the program with every step of a question's processing enabled: the    *)
(* same behaviours as Spec, since no question gets past run_research      *)
SpecWhole == Init /\ [][Next \/ ForecastNext]_vars

(* ============================== claims ================================ *)

Min(a, b) == IF a < b THEN a ELSE b

(* q's processing is between the start of its research and the end of its *)
(* publishing                                                              *)
InFlight(q) == pc[q] \in {"wiki", "news", "forecast", "await_llm", "predicted"}

(* run_research was called for q and has ended (returned or raised) *)
ResearchEnded(q) == researchCalls[q] > 0 /\ pc[q] \notin {"pending", "wiki", "news"}

(* q's processing has ended *)
Ended(q) == pc[q] \in {"failed", "done"}

(* the news endpoint is asked and answers with the given kind of status *)
NewsAnswersOk == newsApiKeySet /\ ~newsRaises /\ newsStatus = HTTP_OK
NewsAnswersNotOk == newsApiKeySet /\ ~newsRaises /\ newsStatus # HTTP_OK
NewsThrows == newsApiKeySet /\ newsRaises

(* the sections the claims expect *)
ExpectedWiki(q) ==
    <<WikiHeader, NL>> \o SubSeq(wikiSummary[q], 1, Min(Len(wikiSummary[q]), SummaryLimit))
ExpectedBullets ==
    [i \in 1..Min(Len(newsArticles), NewsLimit) |->
        <<"- ", newsArticles[i].title, " (", newsArticles[i].url, ")">>]
RECURSIVE Lines(_)
Lines(ls) == IF ls = <<>> THEN <<>>
             ELSE IF Len(ls) = 1 THEN ls[1] ELSE ls[1] \o <<NL>> \o Lines(Tail(ls))
ExpectedNews == <<NewsHeader, NL>> \o Lines(ExpectedBullets)
BulletCount(blob) == Cardinality({i \in 1..Len(blob) : blob[i] = "- "})
EndsWith(blob, suffix) ==
    /\ Len(blob) >= Len(suffix)
    /\ SubSeq(blob, Len(blob) - Len(suffix) + 1, Len(blob)) = suffix
StartsWith(blob, prefix) ==
    /\ Len(blob) >= Len(prefix)
    /\ SubSeq(blob, 1, Len(prefix)) = prefix

(* C1: at most one question is between the start of its research and the  *)
(* end of its publishing, and the question that is holds the one permit   *)
(* of _concurrency_limiter for the whole of that sequence.                *)
C1_OneInFlightHoldingPermit ==
    \A q \in Questions :
        InFlight(q) =>
            /\ limiterValue = 0
            /\ \A p \in Questions \ {q} : ~InFlight(p)

(* C2: when the page does not exist and there is no news key, or the news *)
(* endpoint answers a status other than 200, run_research returns exactly *)
(* "No free research available".                                          *)
C2_PlaceholderReturned ==
    \A q \in Questions :
        (ResearchEnded(q) /\ ~wikiExists[q] /\ (~newsApiKeySet \/ NewsAnswersNotOk)) =>
            /\ researchOutcome[q] = "returned"
            /\ researchResult[q] = Placeholder

(* C3: every question is researched, then predicted from the blob its own *)
(* research returned, then published: no prediction before the research   *)
(* has returned, nothing published before the prediction, and a question  *)
(* whose processing ended without a failure of the news endpoint or of    *)
(* the model went through all three steps.                                *)
C3_ResearchPredictPublish ==
    \A q \in Questions :
        /\ llmCalls[q] > 0 =>
              researchOutcome[q] = "returned" /\ researchArg[q] = researchResult[q]
        /\ published[q] # <<>> =>
              forecastOutcome[q] = "returned" /\ published[q] = <<prediction[q]>>
        /\ (Ended(q) /\ researchOutcome[q] # "TransportError"
                /\ forecastOutcome[q] \notin {"LlmError", "ValueError"}) =>
              /\ researchOutcome[q] = "returned"
              /\ forecastOutcome[q] = "returned"
              /\ published[q] = <<prediction[q]>>

(* the positions at which a percentage-shaped value of a text ends: a "%" *)
(* directly after a digit                                                  *)
PercentEnds(text) == {j \in 2..Len(text) : text[j] = "%" /\ IsDigit(text[j - 1])}
LastPercentEnd(text) ==
    CHOOSE j \in PercentEnds(text) : \A k \in PercentEnds(text) : k <= j
(* first position of the digit run that ends just before position j *)
RunStart(text, j) ==
    CHOOSE i \in 1..(j - 1) :
        /\ \A k \in i..(j - 1) : IsDigit(text[k])
        /\ i = 1 \/ ~IsDigit(text[i - 1])
RECURSIVE Decimal(_, _, _)
Decimal(text, i, j) ==
    IF i > j THEN 0 ELSE Decimal(text, i, j - 1) * 10 + DigitValue(text[j])
LastPercentage(text) ==
    LET j == LastPercentEnd(text) IN Decimal(text, RunStart(text, j), j - 1)

(* C4: when the model's response holds a percentage-shaped value, the     *)
(* prediction _run_forecast_on_binary returns has the rightmost such      *)
(* value as its number and the whole response, unchanged, as its          *)
(* reasoning.                                                              *)
C4_LastPercentageWins ==
    \A q \in Questions :
        (forecastOutcome[q] = "returned" /\ PercentEnds(reasoning[q]) # {}) =>
            /\ prediction[q].prediction_value = LastPercentage(reasoning[q])
            /\ prediction[q].reasoning = reasoning[q]

(* a response with two different percentages, the prediction being the    *)
(* second                                                                  *)
C4_Witness ==
    \E q \in Questions :
        /\ forecastOutcome[q] = "returned"
        /\ reasoning[q] = <<"7", "%", "3", "%">>
        /\ prediction[q] = [prediction_value |-> 3, reasoning |-> <<"7", "%", "3", "%">>]

(* C5: when the news endpoint is asked and answers 200, run_research      *)
(* returns a blob that ends with the news section, whose bullets are the  *)
(* first min(n, 3) of the n articles returned, in order, each as          *)
(* "- title (url)": never more than 3.                                     *)
C5_NewsSectionAtMostThree ==
    \A q \in Questions :
        (ResearchEnded(q) /\ NewsAnswersOk) =>
            /\ researchOutcome[q] = "returned"
            /\ EndsWith(researchResult[q], ExpectedNews)
            /\ BulletCount(researchResult[q]) = Min(Len(newsArticles), NewsLimit)
            /\ BulletCount(researchResult[q]) <= NewsLimit

(* C6: when the page exists (and the news request does not throw), the    *)
(* blob run_research returns starts with "Wikipedia Summary:", a line     *)
(* break and the first min(len, 1000) characters of the summary; it is    *)
(* exactly that when there is no news section, and that, a blank line and *)
(* the news section when there is one.                                     *)
C6_WikiSectionTruncated ==
    \A q \in Questions :
        (ResearchEnded(q) /\ wikiExists[q] /\ ~NewsThrows) =>
            /\ researchOutcome[q] = "returned"
            /\ researchResult[q] =
                  IF NewsAnswersOk
                  THEN ExpectedWiki(q) \o <<NL, NL>> \o ExpectedNews
                  ELSE ExpectedWiki(q)
            /\ Len(researchResult[q]) <= 2 + SummaryLimit
                  \/ researchResult[q][2 + SummaryLimit + 1] = NL

FirstFifty(q) == SubSeq(question_text[q], 1, Min(Len(question_text[q]), QueryLimit))

(* C7: a call of run_research sends the encyclopedia the first 50         *)
(* characters of the question text (the whole text when it is shorter)    *)
(* and, when a news key is set, sends the news endpoint the same string.  *)
C7_BothQueriesTruncated ==
    \A q \in Questions :
        ResearchEnded(q) =>
            /\ wikiQuery[q] = <<FirstFifty(q)>>
            /\ newsApiKeySet => newsQuery[q] = <<FirstFifty(q)>>

(* every query that is sent is the first 50 characters of the text *)
QueriesSentAreTruncated ==
    \A q \in Questions :
        /\ \A i \in 1..Len(wikiQuery[q]) : wikiQuery[q][i] = FirstFifty(q)
        /\ \A i \in 1..Len(newsQuery[q]) : newsQuery[q][i] = FirstFifty(q)

(* C8: with a news key set, a status other than 200 is suppressed:        *)
(* run_research returns the encyclopedia section alone, or the            *)
(* placeholder; an exception of the request is not caught: run_research   *)
(* returns nothing and the question reaches neither prediction nor        *)
(* publishing.                                                             *)
C8_NonOkSuppressedThrowPropagates ==
    \A q \in Questions :
        /\ (ResearchEnded(q) /\ NewsAnswersNotOk) =>
              /\ researchOutcome[q] = "returned"
              /\ researchResult[q] = IF wikiExists[q] THEN ExpectedWiki(q) ELSE Placeholder
        /\ (ResearchEnded(q) /\ NewsThrows) =>
              /\ researchOutcome[q] = "TransportError"
              /\ llmCalls[q] = 0
              /\ published[q] = <<>>

(* C9: a question whose processing ended without a failure of the news    *)
(* endpoint or of the model had exactly one research fetch and exactly    *)
(* one language-model invocation, and was published once.                 *)
C9_OneResearchOneLlmCall ==
    \A q \in Questions :
        (Ended(q) /\ researchOutcome[q] # "TransportError"
            /\ forecastOutcome[q] \notin {"LlmError", "ValueError"}) =>
            /\ researchCalls[q] = 1
            /\ llmCalls[q] = 1
            /\ Len(published[q]) = 1

(* C10: unless the news request throws, run_research returns a non-empty  *)
(* string, which is the placeholder iff no section was appended; with the *)
(* page absent and a 200 answer holding no articles it returns            *)
(* "News Headlines:" and a line break; the prompt never falls back to     *)
(* "No research conducted" for a blob that run_research produced.         *)
C10_PlaceholderIffNoSection ==
    \A q \in Questions :
        /\ (ResearchEnded(q) /\ ~NewsThrows) =>
              /\ researchOutcome[q] = "returned"
              /\ researchResult[q] # <<>>
              /\ researchResult[q] = Placeholder <=> (~wikiExists[q] /\ ~NewsAnswersOk)
              /\ (~wikiExists[q] /\ NewsAnswersOk /\ newsArticles = <<>>) =>
                    researchResult[q] = <<NewsHeader, NL>>
        /\ (researchCalls[q] > 0 /\ llmCalls[q] > 0) =>
              ~StartsWith(prompt[q], <<"[Simplified free version]", NL, "Question: ">>
                    \o question_text[q]
                    \o <<NL, "Current Date: ", Today, NL, "Research: ">>
                    \o NoResearchConducted)

(* no question gets from run_research to the prediction *)
NoQuestionReachesForecast ==
    \A q \in Questions : pc[q] \in {"pending", "wiki", "news", "failed"}

(* _concurrency_limiter is never acquired *)
PermitNeverTaken == limiterValue = _max_concurrent_questions

====
